---- MODULE Spec2Model ----
(***************************************************************************)
(* Sidecar process supervisor of src-tauri: setup spawns one worker,      *)
(* two threads drain its stdout and stderr, the stdout drainer writes the  *)
(* discovered port into the managed SidecarState, commands read the port   *)
(* and (are meant to) kill the worker, and the RunEvent::Exit handler      *)
(* kills the worker.                                                       *)
(*                                                                         *)
(* Option<T> is modelled as a sequence: None is <<>>, Some(x) is <<x>>.    *)
(* A line of text is a sequence of one-character strings.                  *)
(***************************************************************************)
EXTENDS Integers, Sequences, FiniteSets, TLC

\* ------------------------------------------------------------------ bounds
MaxStdoutLines == 2   \* lines the worker writes to stdout
MaxStderrLines == 1   \* lines the worker writes to stderr
PipeCap == 1          \* lines an OS pipe buffers before the writer blocks
MaxExitEvents == 2    \* deliveries of RunEvent::Exit to the run closure
MaxKillCmds == 1      \* invocations of the kill_sidecar command

\* ------------------------------------------------------- program constants
U16Max == 65535       \* port: Option<u16>

None == <<>>
Some(x) == <<x>>

Free == "free"

\* Tauri keeps managed state per type: these are the keys
SidecarStateType == "Mutex<SidecarState>"
ChildType == "Mutex<Option<std::process::Child>>"
CommandChildType == "Mutex<Option<tauri_plugin_shell::process::CommandChild>>"

\* .manage(...) calls of the builder
ManagedTypes == {SidecarStateType, ChildType}

\* tauri::generate_handler![get_sidecar_port]
InvokeHandler == {"get_sidecar_port"}

\* the type of the State<..> parameter of kill_sidecar
KillSidecarStateType == CommandChildType

InitialPortZero == Some(0)

\* SidecarState { port: None }
InitialPort == None

PortPrefix == <<"P", "O", "R", "T", ":">>

Digits == <<"0", "1", "2", "3", "4", "5", "6", "7", "8", "9">>

IsDigit(c) == \E i \in 1..10 : Digits[i] = c

DigitVal(c) == (CHOOSE i \in 1..10 : Digits[i] = c) - 1

\* a byte that is not valid UTF-8
InvalidByte == "\\xFF"

\* ------------------------------------------------------------ text helpers
RECURSIVE ToDigits(_)
\* decimal formatting of a natural number
ToDigits(n) ==
    IF n < 10 THEN <<Digits[n + 1]>>
    ELSE Append(ToDigits(n \div 10), Digits[(n % 10) + 1])

\* the line `PORT:<n>`
PortLine(n) == PortPrefix \o ToDigits(n)

\* ------------------------------------------------- the worker's candidate lines
ValidPorts == {0, U16Max}

StdoutLines ==
    { PortLine(n) : n \in ValidPorts } \cup
    { PortLine(U16Max + 1),
      PortPrefix \o <<"\r">>,
      PortPrefix \o <<"8", "a">>,
      <<"x">> \o PortLine(80),
      PortPrefix \o <<"+", "7">>,
      <<"o", "k", InvalidByte>> }

\* the lines of the runs that check progress
LiveStdoutLines ==
    { PortLine(n) : n \in ValidPorts } \cup
    { <<"x">> \o PortLine(80),
      <<"o", "k", InvalidByte>> }

StderrLines == { PortLine(9) }

\* ---------------------------------------------------------- std: lines()
\* BufRead::lines: Err for a line that is not UTF-8, else the line without
\* its "\n" and without a "\r" just before it.
ReadLine(raw) ==
    IF \E i \in 1..Len(raw) : raw[i] = InvalidByte THEN None
    ELSE IF Len(raw) > 0 /\ raw[Len(raw)] = "\r" THEN Some(SubSeq(raw, 1, Len(raw) - 1))
    ELSE Some(raw)

\* ------------------------------------------------------ str::strip_prefix
strip_prefix_anywhere(line, prefix) ==
    IF \E k \in 0..(Len(line) - Len(prefix)) :
          SubSeq(line, k + 1, k + Len(prefix)) = prefix
    THEN LET k == CHOOSE k \in 0..(Len(line) - Len(prefix)) :
                     SubSeq(line, k + 1, k + Len(prefix)) = prefix
         IN Some(SubSeq(line, k + Len(prefix) + 1, Len(line)))
    ELSE None

strip_prefix(line, prefix) ==
    IF Len(line) >= Len(prefix) /\ SubSeq(line, 1, Len(prefix)) = prefix
    THEN Some(SubSeq(line, Len(prefix) + 1, Len(line)))
    ELSE None

\* ------------------------------------------------------ str::parse::<u16>
RECURSIVE ParseDigits(_, _)
\* checked accumulation of decimal digits: None on a non-digit or on overflow
ParseDigits(s, acc) ==
    IF s = <<>> THEN Some(acc)
    ELSE IF ~IsDigit(Head(s)) THEN None
    ELSE LET next == acc * 10 + DigitVal(Head(s))
         IN IF next > U16Max THEN None ELSE ParseDigits(Tail(s), next)

RECURSIVE ParseDigitsBelowMax(_, _)
ParseDigitsBelowMax(s, acc) ==
    IF s = <<>> THEN Some(acc)
    ELSE IF ~IsDigit(Head(s)) THEN None
    ELSE LET next == acc * 10 + DigitVal(Head(s))
         IN IF next >= U16Max THEN None ELSE ParseDigitsBelowMax(Tail(s), next)

parse_u16_below_max(s) ==
    IF s = <<>> THEN None
    ELSE IF s = <<"+">> \/ s = <<"-">> THEN None
    ELSE IF Head(s) = "+" THEN ParseDigitsBelowMax(Tail(s), 0)
    ELSE ParseDigitsBelowMax(s, 0)

RECURSIVE ParseDigitsWrapping(_, _)
ParseDigitsWrapping(s, acc) ==
    IF s = <<>> THEN Some(acc)
    ELSE IF ~IsDigit(Head(s)) THEN None
    ELSE ParseDigitsWrapping(Tail(s), (acc * 10 + DigitVal(Head(s))) % (U16Max + 1))

parse_u16_wrapping(s) ==
    IF s = <<>> THEN None
    ELSE IF s = <<"+">> \/ s = <<"-">> THEN None
    ELSE IF Head(s) = "+" THEN ParseDigitsWrapping(Tail(s), 0)
    ELSE ParseDigitsWrapping(s, 0)

\* u16::from_str: empty is an error, a lone sign is an error, one leading
\* "+" is accepted, "-" is not a digit of an unsigned type
parse_u16(s) ==
    IF s = <<>> THEN None
    ELSE IF s = <<"+">> \/ s = <<"-">> THEN None
    ELSE IF Head(s) = "+" THEN ParseDigits(Tail(s), 0)
    ELSE ParseDigits(s, 0)

\* the port a stdout line announces, if any
Discover(line) ==
    LET rest == strip_prefix(line, PortPrefix)
    IN IF rest = None THEN None ELSE parse_u16(rest[1])

SetPortZeroIsNone(v) == IF v = 0 THEN None ELSE Some(v)

\* state.port = Some(port)
SetPort(v) == Some(v)

\* ------------------------------------------------------------- commands.rs
NotReady == <<"Err", "Sidecar not ready">>

\* get_sidecar_port with the lock acquired
get_sidecar_port(p) == IF p = None THEN NotReady ELSE <<"Ok", p[1]>>

\* kill_sidecar with the lock acquired: guard.take(), child.kill()?, Ok(())
kill_sidecar(guard, killOk) ==
    [ guard  |-> None,
      sent   |-> guard # None,
      result |-> IF guard # None /\ ~killOk THEN "Err" ELSE "Ok" ]

ExitHandlerNoKill(guard) == [ guard |-> guard, sent |-> FALSE ]

\* the Exit branch of the run closure with the lock acquired:
\* if let Some(ref mut child) = *guard { let _ = child.kill(); }
ExitHandler(guard) == [ guard |-> guard, sent |-> guard # None ]

\* ------------------------------------------------------------------- state
VARIABLES
    port,        \* SidecarState.port
    portLock,    \* holder of the Mutex<SidecarState>
    managed,     \* managed Option<handle> slots, by type
    childLock,   \* holder of the Mutex<Option<Child>>
    worker,      \* "none", "running", "exited"
    stdoutPipe,  \* raw lines buffered in the worker's stdout pipe
    stderrPipe,  \* raw lines buffered in the worker's stderr pipe
    nOut,        \* lines written to stdout so far
    nErr,        \* lines written to stderr so far
    pcMain,      \* position of the main thread
    pcOut,       \* position of the stdout drainer thread
    pcErr,       \* position of the stderr drainer thread
    outLine,     \* `line` of the stdout drainer (the last one read)
    exitEvents,  \* Exit events delivered
    killCmds,    \* kill_sidecar invocations
    signals,     \* history: OS-level kills issued on the worker
    nCalls,      \* history: kill-path calls that reached their decision
    lastCall,    \* history: the last kill-path call
    lastQuery,   \* history: result of the last get_sidecar_port
    portWrites,  \* history: writes of the registry
    validProcessed, \* history: valid discovery lines the stdout drainer processed
    lastValid,   \* history: value of the last valid discovery line it processed
    validEmitted \* history: valid discovery lines the worker wrote to stdout

vars == << port, portLock, managed, childLock, worker, stdoutPipe, stderrPipe,
           nOut, nErr, pcMain, pcOut, pcErr, outLine, exitEvents, killCmds,
           signals, nCalls, lastCall, lastQuery, portWrites, validProcessed,
           lastValid, validEmitted >>

procVars == << worker, stdoutPipe, stderrPipe, nOut, nErr, validEmitted >>
killVars == << managed, childLock, exitEvents, killCmds, signals, nCalls, lastCall >>
outVars  == << port, portLock, pcOut, outLine, portWrites, validProcessed, lastValid >>

\* the positions at which the main thread has ended in a panic
PanickedAt == { "panicked_log", "panicked_spawn", "panicked_capture",
                "panicked_threads", "panicked_exit" }

MainPanicked == pcMain \in PanickedAt

\* the read end of a pipe is closed once its owner is gone without reading
\* it to the end: the drainer thread ended in a panic, or setup panicked
\* before it handed the stream to a drainer
StdoutClosed == pcOut = "panicked" \/ (pcOut = "unstarted" /\ MainPanicked)

StderrClosed == pcErr = "panicked" \/ (pcErr = "unstarted" /\ MainPanicked)

\* a kill-path call: which path, whether it issued the OS-level kill, what it
\* returned, and the situation it was made in
Call(path, sent, result) ==
    [ path   |-> path,
      sent   |-> sent,
      result |-> result,
      stored |-> managed[ChildType] # None,  \* setup had stored the handle
      prior  |-> signals,                    \* kills issued before this call
      dead   |-> worker = "exited" ]         \* the worker had already exited

NoCall == [ path |-> "none", sent |-> FALSE, result |-> "Ok",
            stored |-> FALSE, prior |-> 0, dead |-> FALSE ]
NoQuery == <<"None">>

\* a line the claims call a discovery line: the prefix, then an optional
\* "+", then one or more decimal digits of value at most 65535
RECURSIVE DecValue(_)
DecValue(s) == IF s = <<>> THEN 0 ELSE DecValue(SubSeq(s, 1, Len(s) - 1)) * 10 + DigitVal(s[Len(s)])

AllDigits(s) == Len(s) >= 1 /\ \A i \in 1..Len(s) : IsDigit(s[i])

HasPrefix(line) == Len(line) >= 5 /\ SubSeq(line, 1, 5) = PortPrefix

Remainder(line) == SubSeq(line, 6, Len(line))

\* the remainder is numeric (digits only), not empty and in range
PlainDiscovery(line) ==
    /\ HasPrefix(line)
    /\ AllDigits(Remainder(line))
    /\ DecValue(Remainder(line)) <= U16Max

Unsigned(s) == IF Len(s) >= 1 /\ s[1] = "+" THEN Tail(s) ELSE s

\* the same with one optional leading "+"
SignedDiscovery(line) ==
    /\ HasPrefix(line)
    /\ AllDigits(Unsigned(Remainder(line)))
    /\ DecValue(Unsigned(Remainder(line))) <= U16Max

\* the number a discovery line announces
DiscoveryValue(line) == DecValue(Unsigned(Remainder(line)))

\* -------------------------------------------------------------------- Init
Init ==
    /\ port = InitialPort
    /\ portLock = Free
    /\ managed = [ t \in ManagedTypes \ {SidecarStateType} |-> None ]
    /\ childLock = Free
    /\ worker = "none"
    /\ stdoutPipe = <<>>
    /\ stderrPipe = <<>>
    /\ nOut = 0
    /\ nErr = 0
    /\ pcMain = "spawn"
    /\ pcOut = "unstarted"
    /\ pcErr = "unstarted"
    /\ outLine = <<>>
    /\ exitEvents = 0
    /\ killCmds = 0
    /\ signals = 0
    /\ nCalls = 0
    /\ lastCall = NoCall
    /\ lastQuery = NoQuery
    /\ portWrites = 0
    /\ validProcessed = 0
    /\ lastValid = None
    /\ validEmitted = 0

\* ------------------------------------------------------------------- setup
\* Command::new(..).spawn().expect(..)
SetupSpawn ==
    /\ pcMain = "spawn"
    /\ \/ worker' = "running" /\ pcMain' = "capture"
       \/ worker' = "none" /\ pcMain' = "panicked_spawn"
    /\ UNCHANGED << stdoutPipe, stderrPipe, nOut, nErr, validEmitted >>
    /\ UNCHANGED << killVars, outVars, pcErr, lastQuery >>

SetupCaptureThreadsFirst ==
    /\ pcMain = "capture"
    /\ \/ pcMain' = "spawn_stderr" /\ UNCHANGED << stdoutPipe, stderrPipe, pcErr >>
       \/ /\ pcMain' = "panicked_capture"
          /\ pcErr' = "read"
          /\ stdoutPipe' = <<>>
          /\ UNCHANGED stderrPipe
    /\ UNCHANGED << worker, nOut, nErr, validEmitted >>
    /\ UNCHANGED << killVars, outVars, lastQuery >>

\* child.stdout.take().expect(..) and child.stderr.take().expect(..); a
\* panic drops the child with both streams, which closes their read ends
SetupCapture ==
    /\ pcMain = "capture"
    /\ \/ pcMain' = "spawn_stderr" /\ UNCHANGED << stdoutPipe, stderrPipe >>
       \/ /\ pcMain' = "panicked_capture"
          /\ stdoutPipe' = <<>>
          /\ stderrPipe' = <<>>
    /\ UNCHANGED << worker, nOut, nErr, validEmitted >>
    /\ UNCHANGED << killVars, outVars, pcErr, lastQuery >>

\* the first std::thread::spawn: the stderr drainer starts; thread::spawn
\* panics when the OS refuses the thread, and both streams are dropped
SetupSpawnStderr ==
    /\ pcMain = "spawn_stderr"
    /\ \/ /\ pcMain' = "spawn_stdout"
          /\ pcErr' = "read"
          /\ UNCHANGED << stdoutPipe, stderrPipe >>
       \/ /\ pcMain' = "panicked_threads"
          /\ stdoutPipe' = <<>>
          /\ stderrPipe' = <<>>
          /\ UNCHANGED pcErr
    /\ UNCHANGED << worker, nOut, nErr, validEmitted >>
    /\ UNCHANGED << killVars, outVars, lastQuery >>

\* the second std::thread::spawn: the stdout drainer starts; when it panics
\* the stdout stream is dropped and the stderr drainer is already running
SetupSpawnStdout ==
    /\ pcMain = "spawn_stdout"
    /\ \/ /\ pcMain' = "store"
          /\ pcOut' = "read"
          /\ UNCHANGED stdoutPipe
       \/ /\ pcMain' = "panicked_threads"
          /\ stdoutPipe' = <<>>
          /\ UNCHANGED pcOut
    /\ UNCHANGED << worker, stderrPipe, nOut, nErr, validEmitted >>
    /\ UNCHANGED << killVars, port, portLock, outLine, portWrites, validProcessed, lastValid >>
    /\ UNCHANGED << pcErr, lastQuery >>

\* *child_state.lock().unwrap() = Some(child)
SetupStore ==
    /\ pcMain = "store"
    /\ childLock = Free
    /\ managed' = [ managed EXCEPT ![ChildType] = Some("child") ]
    /\ pcMain' = "running"
    /\ UNCHANGED << childLock, exitEvents, killCmds, signals, nCalls, lastCall >>
    /\ UNCHANGED << procVars, outVars, pcErr, lastQuery >>

\* ------------------------------------------------------------------ worker
WorkerWritesStdout(lines) ==
    /\ worker = "running"
    /\ ~StdoutClosed
    /\ nOut < MaxStdoutLines
    /\ Len(stdoutPipe) < PipeCap
    /\ \E l \in lines :
          /\ stdoutPipe' = Append(stdoutPipe, l)
          /\ validEmitted' = validEmitted +
                (IF ReadLine(l) # None /\ SignedDiscovery(ReadLine(l)[1]) THEN 1 ELSE 0)
    /\ nOut' = nOut + 1
    /\ UNCHANGED << worker, stderrPipe, nErr >>
    /\ UNCHANGED << killVars, outVars, pcMain, pcErr, lastQuery >>

WorkerWriteStdout == WorkerWritesStdout(StdoutLines)

LiveWorkerWriteStdout == WorkerWritesStdout(LiveStdoutLines)

WorkerWriteStderr ==
    /\ worker = "running"
    /\ ~StderrClosed
    /\ nErr < MaxStderrLines
    /\ Len(stderrPipe) < PipeCap
    /\ \E l \in StderrLines : stderrPipe' = Append(stderrPipe, l)
    /\ nErr' = nErr + 1
    /\ UNCHANGED << worker, stdoutPipe, nOut, validEmitted >>
    /\ UNCHANGED << killVars, outVars, pcMain, pcErr, lastQuery >>

\* The worker writes to a stream whose read end is closed: the line is lost
\* and the write fails; whether the worker survives the failed write is the
\* worker's own affair.
WorkerWriteStdoutBrokenPipe ==
    /\ worker = "running"
    /\ StdoutClosed
    /\ nOut < MaxStdoutLines
    /\ nOut' = nOut + 1
    /\ worker' \in {"running", "exited"}
    /\ UNCHANGED << stdoutPipe, stderrPipe, nErr, validEmitted >>
    /\ UNCHANGED << killVars, outVars, pcMain, pcErr, lastQuery >>

WorkerWriteStderrBrokenPipe ==
    /\ worker = "running"
    /\ StderrClosed
    /\ nErr < MaxStderrLines
    /\ nErr' = nErr + 1
    /\ worker' \in {"running", "exited"}
    /\ UNCHANGED << stdoutPipe, stderrPipe, nOut, validEmitted >>
    /\ UNCHANGED << killVars, outVars, pcMain, pcErr, lastQuery >>

\* the worker terminates on its own
WorkerExit ==
    /\ worker = "running"
    /\ worker' = "exited"
    /\ UNCHANGED << stdoutPipe, stderrPipe, nOut, nErr, validEmitted >>
    /\ UNCHANGED << killVars, outVars, pcMain, pcErr, lastQuery >>

\* ---------------------------------------------------------- stderr drainer
DrainStderrSequential ==
    /\ pcErr = "read"
    /\ pcOut = "done"
    /\ \/ /\ stderrPipe # <<>>
          /\ stderrPipe' = Tail(stderrPipe)
          /\ UNCHANGED pcErr
       \/ /\ stderrPipe = <<>>
          /\ worker = "exited"
          /\ pcErr' = "done"
          /\ UNCHANGED stderrPipe
    /\ UNCHANGED << worker, stdoutPipe, nOut, nErr, validEmitted >>
    /\ UNCHANGED << killVars, outVars, pcMain, lastQuery >>

DrainStderrParses ==
    /\ pcErr = "read"
    /\ \/ /\ stderrPipe # <<>>
          /\ stderrPipe' = Tail(stderrPipe)
          /\ port' = IF ReadLine(Head(stderrPipe)) # None
                        /\ Discover(ReadLine(Head(stderrPipe))[1]) # None
                     THEN SetPort(Discover(ReadLine(Head(stderrPipe))[1])[1])
                     ELSE port
          /\ UNCHANGED pcErr
       \/ /\ stderrPipe = <<>>
          /\ worker = "exited"
          /\ pcErr' = "done"
          /\ UNCHANGED << stderrPipe, port >>
    /\ UNCHANGED << worker, stdoutPipe, nOut, nErr, validEmitted >>
    /\ UNCHANGED << portLock, pcOut, outLine, portWrites, validProcessed, lastValid >>
    /\ UNCHANGED << killVars, pcMain, lastQuery >>

\* for line in reader.lines() { if let Ok(line) = line { eprintln!(..) } }
DrainStderr ==
    /\ pcErr = "read"
    /\ \/ /\ stderrPipe # <<>>
          /\ stderrPipe' = Tail(stderrPipe)
          /\ UNCHANGED pcErr
       \/ /\ stderrPipe = <<>>
          /\ worker = "exited"
          /\ pcErr' = "done"
          /\ UNCHANGED stderrPipe
    /\ UNCHANGED << worker, stdoutPipe, nOut, nErr, validEmitted >>
    /\ UNCHANGED << killVars, outVars, pcMain, lastQuery >>

\* ---------------------------------------------------------- stdout drainer
DrainStdoutReadBreakOnErr ==
    /\ pcOut = "read"
    /\ \/ /\ stdoutPipe # <<>>
          /\ stdoutPipe' = Tail(stdoutPipe)
          /\ IF ReadLine(Head(stdoutPipe)) = None
             THEN pcOut' = "done" /\ UNCHANGED outLine
             ELSE outLine' = ReadLine(Head(stdoutPipe))[1] /\ pcOut' = "line"
       \/ /\ stdoutPipe = <<>>
          /\ worker = "exited"
          /\ pcOut' = "done"
          /\ UNCHANGED << stdoutPipe, outLine >>
    /\ UNCHANGED << worker, stderrPipe, nOut, nErr, validEmitted >>
    /\ UNCHANGED << killVars, port, portLock, portWrites, validProcessed, lastValid, pcMain, pcErr, lastQuery >>

\* the next item of reader.lines(): a line (logged), a skipped Err, or the end
DrainStdoutRead ==
    /\ pcOut = "read"
    /\ \/ /\ stdoutPipe # <<>>
          /\ stdoutPipe' = Tail(stdoutPipe)
          /\ IF ReadLine(Head(stdoutPipe)) = None
             THEN UNCHANGED << pcOut, outLine >>
             ELSE outLine' = ReadLine(Head(stdoutPipe))[1] /\ pcOut' = "line"
       \/ /\ stdoutPipe = <<>>
          /\ worker = "exited"
          /\ pcOut' = "done"
          /\ UNCHANGED << stdoutPipe, outLine >>
    /\ UNCHANGED << worker, stderrPipe, nOut, nErr, validEmitted >>
    /\ UNCHANGED << killVars, port, portLock, portWrites, validProcessed, lastValid, pcMain, pcErr, lastQuery >>

DrainStdoutMatchFirstWins ==
    /\ pcOut = "line"
    /\ validProcessed' = validProcessed + (IF SignedDiscovery(outLine) THEN 1 ELSE 0)
    /\ lastValid' = IF SignedDiscovery(outLine) THEN Some(DiscoveryValue(outLine)) ELSE lastValid
    /\ IF Discover(outLine) = None
       THEN /\ pcOut' = "read"
            /\ UNCHANGED << port, portLock, portWrites >>
       ELSE /\ portLock = Free
            /\ portLock' = "out"
            /\ port' = IF port = None THEN SetPort(Discover(outLine)[1]) ELSE port
            /\ portWrites' = portWrites + 1
            /\ pcOut' = "written"
    /\ UNCHANGED << procVars, killVars, outLine, pcMain, pcErr, lastQuery >>

\* strip_prefix, parse and, on success, lock and state.port = Some(port)
DrainStdoutMatch ==
    /\ pcOut = "line"
    /\ validProcessed' = validProcessed + (IF SignedDiscovery(outLine) THEN 1 ELSE 0)
    /\ lastValid' = IF SignedDiscovery(outLine) THEN Some(DiscoveryValue(outLine)) ELSE lastValid
    /\ IF Discover(outLine) = None
       THEN /\ pcOut' = "read"
            /\ UNCHANGED << port, portLock, portWrites >>
       ELSE /\ portLock = Free
            /\ portLock' = "out"
            /\ port' = SetPort(Discover(outLine)[1])
            /\ portWrites' = portWrites + 1
            /\ pcOut' = "written"
    /\ UNCHANGED << procVars, killVars, outLine, pcMain, pcErr, lastQuery >>

\* eprintln!("Sidecar started on port {}", port); the guard drops
DrainStdoutLogPort ==
    /\ pcOut = "written"
    /\ portLock' = Free
    /\ pcOut' = "read"
    /\ UNCHANGED << procVars, killVars, port, outLine, portWrites, validProcessed, lastValid, pcMain, pcErr, lastQuery >>

\* ---------------------------------------------------------------- commands
\* get_sidecar_port: lock, read, unlock
GetSidecarPort ==
    /\ ~MainPanicked
    /\ portLock = Free
    /\ lastQuery' = get_sidecar_port(port)
    /\ UNCHANGED << procVars, killVars, outVars, pcMain, pcErr >>

\* an invocation of kill_sidecar from the surrounding application: it is
\* dispatched only if the invoke handler holds it, and its State parameter
\* resolves only to a managed state of that very type; otherwise the
\* invocation is rejected with an error and the body does not run
KillSidecarCmd ==
    /\ ~MainPanicked
    /\ killCmds < MaxKillCmds
    /\ killCmds' = killCmds + 1
    /\ nCalls' = nCalls + 1
    /\ IF "kill_sidecar" \in InvokeHandler /\ KillSidecarStateType \in DOMAIN managed
       THEN \E killOk \in (IF worker = "running" THEN {TRUE} ELSE {TRUE, FALSE}) :
              LET r == kill_sidecar(managed[KillSidecarStateType], killOk)
              IN /\ childLock = Free
                 /\ managed' = [ managed EXCEPT ![KillSidecarStateType] = r.guard ]
                 /\ signals' = signals + (IF r.sent THEN 1 ELSE 0)
                 /\ worker' = IF r.sent THEN "exited" ELSE worker
                 /\ lastCall' = Call("kill_sidecar", r.sent, r.result)
       ELSE /\ lastCall' = Call("kill_sidecar", FALSE, "Err")
            /\ UNCHANGED << managed, signals, worker >>
    /\ UNCHANGED << childLock, exitEvents >>
    /\ UNCHANGED << stdoutPipe, stderrPipe, nOut, nErr, validEmitted >>
    /\ UNCHANGED << outVars, pcMain, pcErr, lastQuery >>

\* --------------------------------------------------------------- exit hook
ExitLockBothLocks ==
    /\ pcMain = "running"
    /\ exitEvents < MaxExitEvents
    /\ childLock = Free
    /\ childLock' = "main"
    /\ portLock = Free
    /\ portLock' = "main"
    /\ exitEvents' = exitEvents + 1
    /\ pcMain' = "exit_locked"
    /\ UNCHANGED << managed, killCmds, signals, nCalls, lastCall >>
    /\ UNCHANGED << procVars, port, pcOut, outLine, portWrites, validProcessed, lastValid, pcErr, lastQuery >>

\* The run closure is called for every event; Exit may be delivered to it up
\* to MaxExitEvents times, and commands may still arrive around it.
\* RunEvent::Exit arrives: state.lock()
ExitLock ==
    /\ pcMain = "running"
    /\ exitEvents < MaxExitEvents
    /\ childLock = Free
    /\ childLock' = "main"
    /\ exitEvents' = exitEvents + 1
    /\ pcMain' = "exit_locked"
    /\ UNCHANGED << managed, killCmds, signals, nCalls, lastCall >>
    /\ UNCHANGED << procVars, outVars, pcErr, lastQuery >>

\* if let Some(ref mut child) = *guard { let _ = child.kill(); .. }
ExitKill ==
    /\ pcMain = "exit_locked"
    /\ LET r == ExitHandler(managed[ChildType])
       IN /\ managed' = [ managed EXCEPT ![ChildType] = r.guard ]
          /\ signals' = signals + (IF r.sent THEN 1 ELSE 0)
          /\ worker' = IF r.sent THEN "exited" ELSE worker
          /\ lastCall' = Call("exit", r.sent, "Ok")
          /\ nCalls' = nCalls + 1
          /\ IF managed[ChildType] # None
             THEN pcMain' = "exit_log" /\ UNCHANGED childLock
             ELSE pcMain' = "running" /\ childLock' = Free
    /\ UNCHANGED << exitEvents, killCmds >>
    /\ UNCHANGED << stdoutPipe, stderrPipe, nOut, nErr, validEmitted >>
    /\ UNCHANGED << outVars, pcErr, lastQuery >>

\* eprintln!("Sidecar process killed"); the guard drops
ExitLog ==
    /\ pcMain = "exit_log"
    /\ childLock' = Free
    /\ pcMain' = "running"
    /\ UNCHANGED << managed, exitEvents, killCmds, signals, nCalls, lastCall >>
    /\ UNCHANGED << procVars, outVars, pcErr, lastQuery >>

\* -------------------------------------------------------------------- Next
Next ==
    \/ SetupSpawn
    \/ SetupCapture
    \/ SetupSpawnStderr
    \/ SetupSpawnStdout
    \/ SetupStore
    \/ WorkerWriteStdout
    \/ WorkerWriteStderr
    \/ WorkerWriteStdoutBrokenPipe
    \/ WorkerWriteStderrBrokenPipe
    \/ WorkerExit
    \/ DrainStderr
    \/ DrainStdoutRead
    \/ DrainStdoutMatch
    \/ DrainStdoutLogPort
    \/ GetSidecarPort
    \/ KillSidecarCmd
    \/ ExitLock
    \/ ExitKill
    \/ ExitLog

Spec == Init /\ [][Next]_vars

\* Fair scheduling: each drainer thread, once it can take a step, takes it,
\* and a caller that polls the port keeps polling.
\* the steps of the stdout drainer thread
StdoutDrainer == DrainStdoutRead \/ DrainStdoutMatch \/ DrainStdoutLogPort

Fairness ==
    /\ WF_vars(DrainStderr)
    /\ WF_vars(StdoutDrainer)
    /\ WF_vars(GetSidecarPort)

\* Next with the worker's stdout lines drawn from LiveStdoutLines
LiveNext ==
    \/ SetupSpawn
    \/ SetupCapture
    \/ SetupSpawnStderr
    \/ SetupSpawnStdout
    \/ SetupStore
    \/ LiveWorkerWriteStdout
    \/ WorkerWriteStderr
    \/ WorkerWriteStdoutBrokenPipe
    \/ WorkerWriteStderrBrokenPipe
    \/ WorkerExit
    \/ DrainStderr
    \/ DrainStdoutRead
    \/ DrainStdoutMatch
    \/ DrainStdoutLogPort
    \/ GetSidecarPort
    \/ KillSidecarCmd
    \/ ExitLock
    \/ ExitKill
    \/ ExitLog

LiveSpec == Init /\ [][LiveNext]_vars /\ Fairness

\* ------------------------------------------------------ lock failures
\* std::sync::Mutex::lock returns Err once the mutex is poisoned, that is,
\* once a thread has panicked while holding it; a poisoned mutex stays so.
\* eprintln! panics when the write to the application's stderr fails, and
\* the program holds a guard across an eprintln! at two places: in the stdout
\* drainer after the registry write, and in the Exit branch after the kill.
\* FaultNext adds the failure of each eprintln! the program makes.
Poisoned == "poisoned"

\* state.lock().map_err(|e| e.to_string())? in get_sidecar_port
LockError == <<"Err", "poisoned lock: another task failed inside">>

\* Err(_) => return in the Exit branch: nothing is killed, nothing is logged
ExitHandlerLockErr == [ sent |-> FALSE, logged |-> FALSE ]

\* eprintln!("Sidecar python: ..") or eprintln!("Sidecar dir: ..") fails:
\* setup panics before the worker is created
SetupLogPanic ==
    /\ pcMain = "spawn"
    /\ pcMain' = "panicked_log"
    /\ UNCHANGED << procVars, killVars, outVars, pcErr, lastQuery >>

\* eprintln!("[sidecar stderr] {}", line) fails: the stderr drainer thread
\* panics on the line it has read, holding no lock; its end closes the read
\* end of the stderr pipe
DrainStderrLogPanic ==
    /\ pcErr = "read"
    /\ stderrPipe # <<>>
    /\ ReadLine(Head(stderrPipe)) # None
    /\ pcErr' = "panicked"
    /\ stderrPipe' = <<>>
    /\ UNCHANGED << worker, stdoutPipe, nOut, nErr, validEmitted >>
    /\ UNCHANGED << killVars, outVars, pcMain, lastQuery >>

\* eprintln!("[sidecar stdout] {}", line) fails: the stdout drainer thread
\* panics on the line it has read, before it looks at it and holding no
\* lock; its end closes the read end of the stdout pipe
DrainStdoutReadLogPanic ==
    /\ pcOut = "read"
    /\ stdoutPipe # <<>>
    /\ ReadLine(Head(stdoutPipe)) # None
    /\ pcOut' = "panicked"
    /\ stdoutPipe' = <<>>
    /\ UNCHANGED << worker, stderrPipe, nOut, nErr, validEmitted >>
    /\ UNCHANGED << killVars, port, portLock, outLine, portWrites, validProcessed, lastValid >>
    /\ UNCHANGED << pcMain, pcErr, lastQuery >>

\* eprintln!("Sidecar started on port {}", port) fails: the drainer thread
\* panics with the registry guard held, after the write; the mutex is
\* poisoned, and the thread's end closes the read end of the stdout pipe
DrainStdoutLogPortPanic ==
    /\ pcOut = "written"
    /\ portLock = "out"
    /\ portLock' = Poisoned
    /\ pcOut' = "panicked"
    /\ stdoutPipe' = <<>>
    /\ UNCHANGED << worker, stderrPipe, nOut, nErr, validEmitted >>
    /\ UNCHANGED << killVars, port, outLine, portWrites, validProcessed, lastValid >>
    /\ UNCHANGED << pcMain, pcErr, lastQuery >>

\* eprintln!("Sidecar process killed") fails: the main thread panics out of
\* the run closure with the handle guard held, after the kill; the mutex is
\* poisoned and no later event is handled
ExitLogPanic ==
    /\ pcMain = "exit_log"
    /\ childLock = "main"
    /\ childLock' = Poisoned
    /\ pcMain' = "panicked_exit"
    /\ UNCHANGED << managed, exitEvents, killCmds, signals, nCalls, lastCall >>
    /\ UNCHANGED << procVars, outVars, pcErr, lastQuery >>

\* get_sidecar_port: lock() fails, the error string is returned
GetSidecarPortLockErr ==
    /\ ~MainPanicked
    /\ portLock = Poisoned
    /\ lastQuery' = LockError
    /\ UNCHANGED << procVars, killVars, outVars, pcMain, pcErr >>

\* The failure branches of the other two lock sites; they are not steps of
\* FaultNext because no behaviour enables them (PoisonEndsHolder below).
\* the stdout drainer on a discovery line: state.lock().unwrap() panics and
\* the thread ends there
DrainStdoutMatchLockErr ==
    /\ pcOut = "line"
    /\ Discover(outLine) # None
    /\ portLock = Poisoned
    /\ pcOut' = "panicked"
    /\ UNCHANGED << port, portLock, outLine, portWrites, validProcessed, lastValid >>
    /\ UNCHANGED << procVars, killVars, pcMain, pcErr, lastQuery >>

\* RunEvent::Exit arrives and state.lock() fails: Err(_) => return
ExitLockErr ==
    /\ pcMain = "running"
    /\ exitEvents < MaxExitEvents
    /\ childLock = Poisoned
    /\ exitEvents' = exitEvents + 1
    /\ nCalls' = nCalls + 1
    /\ signals' = signals + (IF ExitHandlerLockErr.sent THEN 1 ELSE 0)
    /\ lastCall' = Call("exit", ExitHandlerLockErr.sent,
                        IF ExitHandlerLockErr.logged THEN "Logged" ELSE "Return")
    /\ UNCHANGED << managed, childLock, killCmds >>
    /\ UNCHANGED << procVars, outVars, pcMain, pcErr, lastQuery >>

FaultNext ==
    \/ Next
    \/ SetupLogPanic
    \/ DrainStderrLogPanic
    \/ DrainStdoutReadLogPanic
    \/ DrainStdoutLogPortPanic
    \/ ExitLogPanic
    \/ GetSidecarPortLockErr

FaultSpec == Init /\ [][FaultNext]_vars

\* ================================================================== claims
\* the exit hook has passed its kill decision at least once
ExitHookActed == pcMain = "exit_log" \/ (exitEvents >= 1 /\ pcMain = "running")

\* the stdout drainer has finished processing outLine
OutLineProcessed == pcOut \in {"written", "read", "done"} /\ outLine # <<>>

\* C1: over all interleavings of the kill triggers at most one OS-level kill
\* is ever issued, and the trigger that issues it removes the handle, so that
\* every other trigger finds the slot empty.
C1_TakeOnceKill ==
    /\ signals <= 1
    /\ (lastCall.sent => managed[ChildType] = None)

\* C2: a force kill invoked once setup has stored the handle, and before any
\* other kill path has acted on it, issues the kill on the spawned worker.
C2_ForceKillActsOnHandle ==
    (lastCall.path = "kill_sidecar" /\ lastCall.stored /\ lastCall.prior = 0)
        => (lastCall.sent /\ worker = "exited")

\* C3: once the exit hook has run with the handle lock acquired, the spawned
\* worker has been sent a kill and is terminated.
C3_WorkerKilledOnExit ==
    ExitHookActed => (worker # "none" /\ signals >= 1 /\ worker = "exited")

C3_Witness ==
    /\ pcMain = "running"
    /\ exitEvents = 1
    /\ lastCall.path = "exit"
    /\ ~lastCall.dead
    /\ signals = 1
    /\ worker = "exited"

\* C4: of two kill calls in sequence, through any combination of kill paths,
\* both return without error and the second issues no kill.
C4_IdempotentKill ==
    nCalls >= 2 => (lastCall.result = "Ok" /\ ~lastCall.sent)

\* C5: a kill path that runs when the worker has already exited on its own
\* still returns success to its caller.
C5_KillDeadWorkerOk ==
    (lastCall.path # "none" /\ lastCall.dead) => lastCall.result = "Ok"

\* C6: as long as the stdout drainer has processed no valid discovery line,
\* the port query answers "not ready" (never a default port) and is not
\* blocked: it can complete in the current state.
C6_NotReadyBeforeDiscovery ==
    validProcessed = 0 =>
        /\ get_sidecar_port(port) = NotReady
        /\ lastQuery \in {NoQuery, NotReady}
        /\ (~MainPanicked => ENABLED GetSidecarPort)

C6_Witness ==
    /\ validProcessed = 0
    /\ lastQuery = NotReady
    /\ pcOut = "read"
    /\ outLine = PortLine(U16Max + 1)

\* C7: after the stdout drainer has processed the line PORT:<n>, n the decimal
\* form of a number in 0..65535, the port query returns n.
C7_ValidLineSetsRegistry ==
    LET n == DecValue(Remainder(outLine))
    IN (OutLineProcessed /\ PlainDiscovery(outLine) /\ outLine = PortLine(n))
          => (port = Some(n) /\ get_sidecar_port(port) = <<"Ok", n>>)

C7_Witness ==
    /\ pcOut = "read"
    /\ outLine = PortLine(U16Max)
    /\ lastQuery = <<"Ok", U16Max>>
    /\ portWrites = 2

\* C8 as stated: processing a line that lacks the prefix PORT:, or has it
\* with a remainder that is empty, not all digits, or above 65535, leaves the
\* registry as it was.
C8_NonDiscoveryUnchanged_Original ==
    [][(pcOut = "line" /\ ~PlainDiscovery(outLine)) => port' = port]_vars

\* C8 as amended: processing a line that lacks the prefix PORT:, or has it
\* with a remainder that, after one optional leading "+", is empty, not all
\* digits, or above 65535, leaves the registry as it was.
C8_NonDiscoveryUnchanged ==
    [][(pcOut = "line" /\ ~SignedDiscovery(outLine)) => port' = port]_vars

C8_Witness ==
    /\ pcOut = "read"
    /\ outLine = <<"x">> \o PortLine(80)
    /\ port = Some(U16Max)
    /\ portWrites = 1
    /\ nOut = 2

\* C9: once the registry holds a port it never returns to empty, and worker
\* exit, a kill command and the exit hook leave its value as it is.
C9_NoReset ==
    [][ /\ (port # None => port' # None)
        /\ ((worker' # worker \/ killCmds' # killCmds \/ signals' # signals
               \/ (pcOut' # pcOut /\ pcOut' = "done")
               \/ (pcErr' # pcErr /\ pcErr' = "done")) => port' = port) ]_vars

C9_Witness ==
    /\ port # None
    /\ signals >= 1
    /\ killCmds >= 1
    /\ pcOut = "done"
    /\ pcErr = "done"
    /\ lastQuery = <<"Ok", port[1]>>

\* C10 as stated: whatever the worker writes to stdout, the registry is
\* written at most once.
C10_WriteOnce_Original == portWrites <= 1

\* C10 as amended: the registry is empty until its first write, and it is
\* written at most once for each valid discovery line the worker has written
\* to stdout (so at most once when the worker writes at most one).
C10_WritePerDiscoveryLine ==
    /\ (port = None <=> portWrites = 0)
    /\ portWrites <= validEmitted

C10_Witness ==
    /\ portWrites = 2
    /\ validEmitted = 2
    /\ port = Some(0)
    /\ pcOut = "read"

\* a raw line is buffered in the pipe
InPipe(pipe, l) == \E i \in 1..Len(pipe) : pipe[i] = l

\* C11: with bounded pipes and both drainers running, a full stdout or stderr
\* pipe always gets room again, so no write of the worker blocks forever,
\* whatever the port queries and kill paths do.
C11_DrainingNeverBlocksWorker ==
    /\ (pcOut # "unstarted" /\ Len(stdoutPipe) >= PipeCap) ~> (Len(stdoutPipe) < PipeCap)
    /\ (pcErr # "unstarted" /\ Len(stderrPipe) >= PipeCap) ~> (Len(stderrPipe) < PipeCap)

C11_Witness ==
    /\ pcOut = "written"
    /\ pcErr = "read"
    /\ worker = "running"
    /\ Len(stdoutPipe) = PipeCap
    /\ Len(stderrPipe) = PipeCap
    /\ childLock = "main"

\* C12 as stated: once a valid discovery line PORT:<n> has been written to
\* stdout, a caller that keeps polling eventually receives n.
C12_EventualDiscovery_Original ==
    \A n \in ValidPorts :
        (pcOut # "unstarted" /\ InPipe(stdoutPipe, PortLine(n))) ~> (lastQuery = <<"Ok", n>>)

\* C12, amended: a valid discovery line PORT:<n> written to stdout is
\* eventually in the registry, and a caller that keeps polling then receives
\* n unless a later discovery line replaces it first, whatever is written to
\* stderr.
C12_EventualDiscovery ==
    \A n \in ValidPorts :
        /\ (pcOut # "unstarted" /\ InPipe(stdoutPipe, PortLine(n))) ~> (port = Some(n))
        /\ (port = Some(n)) ~> (lastQuery = <<"Ok", n>> \/ port # Some(n))

C12_Witness ==
    /\ lastQuery = <<"Ok", U16Max>>
    /\ outLine = PortLine(U16Max)
    /\ nErr = MaxStderrLines
    /\ worker = "running"
    /\ nOut = 1

\* C13: once a kill path has acted on the child handle, the shared handle
\* slot is empty (and so stays empty from then on).
C13_HandleAbsentAfterKill ==
    signals >= 1 => managed[ChildType] = None

\* the next statement of the exit hook is child.kill()
ExitHookIssuesKill == pcMain = "exit_locked" /\ managed[ChildType] # None

\* C14: no thread holds the handle lock while it issues the OS-level kill,
\* and no thread holds the registry lock while it writes a log line.
C14_NoLockAcrossSyscall ==
    /\ ~(childLock = "main" /\ ExitHookIssuesKill)
    /\ ~(childLock = "main" /\ pcMain = "exit_log")
    /\ ~(portLock = "out" /\ pcOut = "written")

\* Lock failure in the program (FaultSpec): a mutex is poisoned only by its
\* own holder's panic, which ends that thread, so of the operations that
\* lock, only the port query ever meets a failed acquisition; the failure
\* branches of the stdout drainer and of the exit hook are never enabled.
PoisonEndsHolder ==
    /\ (portLock = Poisoned => pcOut = "panicked" /\ port # None)
    /\ (childLock = Poisoned => pcMain = "panicked_exit" /\ signals >= 1)
    /\ ~ENABLED DrainStdoutMatchLockErr
    /\ ~ENABLED ExitLockErr

\* the port query on a poisoned registry returns the error string and changes
\* nothing else
QueryLockErrReturnsString ==
    [][portLock = Poisoned /\ lastQuery' # lastQuery =>
          /\ lastQuery' = LockError
          /\ UNCHANGED << port, portLock, managed, childLock, signals, pcOut, pcMain >>]_vars

\* C16: the port query returns the value of the most recently processed valid
\* discovery line: each such line overwrites the registry.
C16_LastWins ==
    lastValid # None => get_sidecar_port(port) = <<"Ok", lastValid[1]>>

\* a query saw 65535, then a second discovery line replaced it by 0
C16_Witness ==
    /\ portWrites = 2
    /\ lastQuery = <<"Ok", U16Max>>
    /\ outLine = PortLine(0)
    /\ port = Some(0)
    /\ pcOut = "read"

\* C17: the registry changes only in the step in which the stdout drainer
\* processes a valid discovery line; and as long as the worker has written no
\* valid discovery line to stdout, the port query returns "not ready".
C17_SingleWriter ==
    /\ [][port' # port =>
            (pcOut = "line" /\ pcOut' = "written" /\ SignedDiscovery(outLine))]_vars
    /\ [](validEmitted = 0 => get_sidecar_port(port) = NotReady)

\* the worker wrote PORT:9 to stderr and no discovery line to stdout, then
\* exited; everything was drained, the exit hook and a force kill have run
C17_Witness ==
    /\ validEmitted = 0
    /\ nOut = MaxStdoutLines /\ nErr = MaxStderrLines
    /\ pcOut = "done" /\ pcErr = "done"
    /\ lastCall.path = "exit" /\ lastCall.dead
    /\ killCmds = MaxKillCmds
    /\ lastQuery = NotReady

\* C18: once the worker has exited (its streams are closed), each drainer
\* that was started eventually terminates, with every line written to its
\* stream before the close consumed; unreadable lines are skipped.
C18_DrainersTerminate ==
    /\ (pcOut # "unstarted" /\ worker = "exited")
          ~> (pcOut = "done" /\ stdoutPipe = <<>>)
    /\ (pcErr # "unstarted" /\ worker = "exited")
          ~> (pcErr = "done" /\ stderrPipe = <<>>)

\* both drainers are done after the stdout drainer has skipped unreadable
\* lines only
C18_Witness ==
    /\ pcOut = "done" /\ pcErr = "done"
    /\ nOut = MaxStdoutLines /\ nErr = MaxStderrLines
    /\ outLine = <<>>
    /\ signals >= 1

\* C19: spawn is attempted once and never retried, at most one worker is ever
\* created, and a startup that failed to create the process or to capture a
\* stream has started no drainer, stored no handle and left the registry
\* empty.
C19_FatalStartup ==
    /\ [](pcMain \in {"panicked_spawn", "panicked_capture"} =>
            /\ pcOut = "unstarted" /\ pcErr = "unstarted"
            /\ managed[ChildType] = None
            /\ port = None)
    /\ [][/\ (pcMain' = "spawn" => pcMain = "spawn")
          /\ (worker = "none" /\ worker' # "none" => pcMain = "spawn")
          /\ (worker # "none" => worker' # "none")]_vars

\* capturing a stream failed after the worker had been created; the worker
\* has since met the closed streams
C19_Witness ==
    /\ pcMain = "panicked_capture"
    /\ worker = "running"
    /\ nOut = 1 /\ nErr = 1

\* C20: no thread holds both locks, and a thread that holds one lock can
\* always take its next step, so no two threads wait on each other's lock.
C20_NoLockOrderDeadlock ==
    /\ (portLock # Free /\ childLock # Free => portLock # childLock)
    /\ (portLock = "out" => ENABLED DrainStdoutLogPort)
    /\ (childLock = "main" => ENABLED (ExitKill \/ ExitLog))

\* both locks are held at once, by different threads
C20_Witness ==
    /\ portLock = "out" /\ pcOut = "written"
    /\ childLock = "main" /\ pcMain = "exit_locked"
    /\ worker = "running"

====
